---- MODULE Spec2Model ----
(***************************************************************************)
(* Media resize/crop engine of the social-media scheduler                  *)
(* (utils/mediaResizer): resizeImage, resizeVideo and the format catalog.  *)
(*                                                                         *)
(* Numbers the code computes in floating point (aspect ratios, the crop    *)
(* rectangle) are modelled as exact rationals <<n, d>> in lowest terms.    *)
(* Byte sizes are integers.  Encoder qualities are in percent (0.92 = 92). *)
(***************************************************************************)
EXTENDS Integers, Sequences, FiniteSets, TLC

\* Largest side of the small source images enumerated (besides the named sizes).
MaxDim == 3

MiB == 1024 * 1024

(***************************************************************************)
(* Exact rationals.                                                        *)
(***************************************************************************)
RECURSIVE GCD(_, _)
GCD(a, b) == IF b = 0 THEN a ELSE GCD(b, a % b)

Abs(x) == IF x < 0 THEN -x ELSE x

\* n / d in lowest terms, d > 0.
Rat(n, d) ==
  LET g == GCD(Abs(n), Abs(d))
      s == IF d < 0 THEN -1 ELSE 1
  IN  <<(s * n) \div g, (s * d) \div g>>

RInt(n) == <<n, 1>>
RMul(a, b) == Rat(a[1] * b[1], a[2] * b[2])
RDiv(a, b) == Rat(a[1] * b[2], a[2] * b[1])
RAdd(a, b) == Rat(a[1] * b[2] + b[1] * a[2], a[2] * b[2])
RSub(a, b) == Rat(a[1] * b[2] - b[1] * a[2], a[2] * b[2])
RLt(a, b) == a[1] * b[2] < b[1] * a[2]
RLe(a, b) == a[1] * b[2] <= b[1] * a[2]
RZero == RInt(0)

(***************************************************************************)
(* Format catalog.                                                         *)
(***************************************************************************)
MediaType ==
  {"instagram-post", "instagram-story", "instagram-reel", "twitter-post",
   "facebook-post", "linkedin-post", "tiktok-video"}

MEDIA_SPECS ==
  [m \in MediaType |->
    CASE m = "instagram-post" ->
           [width |-> 1080, height |-> 1080, aspectRatio |-> "1:1", maxSize |-> 8 * MiB]
      [] m = "instagram-story" ->
           [width |-> 1080, height |-> 1920, aspectRatio |-> "9:16", maxSize |-> 8 * MiB]
      [] m = "instagram-reel" ->
           [width |-> 1080, height |-> 1920, aspectRatio |-> "9:16", maxSize |-> 100 * MiB]
      [] m = "twitter-post" ->
           [width |-> 1200, height |-> 675, aspectRatio |-> "16:9", maxSize |-> 5 * MiB]
      [] m = "facebook-post" ->
           [width |-> 1200, height |-> 630, aspectRatio |-> "1.91:1", maxSize |-> 10 * MiB]
      [] m = "linkedin-post" ->
           [width |-> 1200, height |-> 627, aspectRatio |-> "1.91:1", maxSize |-> 5 * MiB]
      [] m = "tiktok-video" ->
           [width |-> 1080, height |-> 1920, aspectRatio |-> "9:16", maxSize |-> 287 * MiB]]

CropPosition == {"center", "top", "bottom", "left", "right"}

\* getMediaTypeLabel: its labels table.
GetMediaTypeLabel(mediaType) ==
  CASE mediaType = "instagram-post" -> "Instagram Post (1:1)"
    [] mediaType = "instagram-story" -> "Instagram Story (9:16)"
    [] mediaType = "instagram-reel" -> "Instagram Reel (9:16)"
    [] mediaType = "twitter-post" -> "Twitter Post (16:9)"
    [] mediaType = "facebook-post" -> "Facebook Post (1.91:1)"
    [] mediaType = "linkedin-post" -> "LinkedIn Post (1.91:1)"
    [] mediaType = "tiktok-video" -> "TikTok Video (9:16)"

(***************************************************************************)
(* Geometric cropper: the rectangle resizeImage hands to drawImage.        *)
(***************************************************************************)
\* specs.width / specs.height
TargetAspect(mediaType) ==
  Rat(MEDIA_SPECS[mediaType].width, MEDIA_SPECS[mediaType].height)

\* A crop that keeps the full source in both branches (no narrowing).
CropRectNoNarrow(imgWidth, imgHeight, mediaType, cropPosition) ==
  [sx |-> RZero, sy |-> RZero, sw |-> RInt(imgWidth), sh |-> RInt(imgHeight)]

\* A crop whose offsets are taken from the wrong edge: 'left'/'top' get the
\* far offset and 'right'/'bottom' get 0.
CropRectSwapped(imgWidth, imgHeight, mediaType, cropPosition) ==
  LET targetAspect == TargetAspect(mediaType)
      sourceAspect == Rat(imgWidth, imgHeight)
  IN  IF RLt(targetAspect, sourceAspect)
      THEN LET sourceWidth == RMul(RInt(imgHeight), targetAspect)
           IN  [sx |-> CASE cropPosition = "right" -> RZero
                         [] cropPosition = "left" -> RSub(RInt(imgWidth), sourceWidth)
                         [] OTHER -> RDiv(RSub(RInt(imgWidth), sourceWidth), RInt(2)),
                sy |-> RZero, sw |-> sourceWidth, sh |-> RInt(imgHeight)]
      ELSE LET sourceHeight == RDiv(RInt(imgWidth), targetAspect)
           IN  [sx |-> RZero,
                sy |-> CASE cropPosition = "bottom" -> RZero
                         [] cropPosition = "top" -> RSub(RInt(imgHeight), sourceHeight)
                         [] OTHER -> RDiv(RSub(RInt(imgHeight), sourceHeight), RInt(2)),
                sw |-> RInt(imgWidth), sh |-> sourceHeight]

\* A crop with the branch test inverted: narrows the side that is already short.
CropRectFlipped(imgWidth, imgHeight, mediaType, cropPosition) ==
  LET targetAspect == TargetAspect(mediaType)
      sourceAspect == Rat(imgWidth, imgHeight)
  IN  IF RLt(sourceAspect, targetAspect)
      THEN LET sourceWidth == RMul(RInt(imgHeight), targetAspect)
           IN  [sx |-> CASE cropPosition = "left" -> RZero
                         [] cropPosition = "right" -> RSub(RInt(imgWidth), sourceWidth)
                         [] OTHER -> RDiv(RSub(RInt(imgWidth), sourceWidth), RInt(2)),
                sy |-> RZero, sw |-> sourceWidth, sh |-> RInt(imgHeight)]
      ELSE LET sourceHeight == RDiv(RInt(imgWidth), targetAspect)
           IN  [sx |-> RZero,
                sy |-> CASE cropPosition = "top" -> RZero
                         [] cropPosition = "bottom" -> RSub(RInt(imgHeight), sourceHeight)
                         [] OTHER -> RDiv(RSub(RInt(imgHeight), sourceHeight), RInt(2)),
                sw |-> RInt(imgWidth), sh |-> sourceHeight]

\* A crop in which every anchor acts on whichever axis is cut: 'top' like
\* 'left' and 'bottom' like 'right'.
CropRectAnyAxis(imgWidth, imgHeight, mediaType, cropPosition) ==
  LET targetAspect == TargetAspect(mediaType)
      sourceAspect == Rat(imgWidth, imgHeight)
  IN  IF RLt(targetAspect, sourceAspect)
      THEN LET sourceWidth == RMul(RInt(imgHeight), targetAspect)
           IN  [sx |-> CASE cropPosition \in {"left", "top"} -> RZero
                         [] cropPosition \in {"right", "bottom"} ->
                              RSub(RInt(imgWidth), sourceWidth)
                         [] OTHER -> RDiv(RSub(RInt(imgWidth), sourceWidth), RInt(2)),
                sy |-> RZero, sw |-> sourceWidth, sh |-> RInt(imgHeight)]
      ELSE LET sourceHeight == RDiv(RInt(imgWidth), targetAspect)
           IN  [sx |-> RZero,
                sy |-> CASE cropPosition \in {"top", "left"} -> RZero
                         [] cropPosition \in {"bottom", "right"} ->
                              RSub(RInt(imgHeight), sourceHeight)
                         [] OTHER -> RDiv(RSub(RInt(imgHeight), sourceHeight), RInt(2)),
                sw |-> RInt(imgWidth), sh |-> sourceHeight]

\* A crop whose source height is img.width * targetAspect, a product where the
\* code divides.
CropRectMultiplied(imgWidth, imgHeight, mediaType, cropPosition) ==
  LET targetAspect == TargetAspect(mediaType)
      sourceAspect == Rat(imgWidth, imgHeight)
  IN  IF RLt(targetAspect, sourceAspect)
      THEN LET sourceWidth == RMul(RInt(imgHeight), targetAspect)
           IN  [sx |-> CASE cropPosition = "left" -> RZero
                         [] cropPosition = "right" -> RSub(RInt(imgWidth), sourceWidth)
                         [] OTHER -> RDiv(RSub(RInt(imgWidth), sourceWidth), RInt(2)),
                sy |-> RZero, sw |-> sourceWidth, sh |-> RInt(imgHeight)]
      ELSE LET sourceHeight == RMul(RInt(imgWidth), targetAspect)
           IN  [sx |-> RZero,
                sy |-> CASE cropPosition = "top" -> RZero
                         [] cropPosition = "bottom" -> RSub(RInt(imgHeight), sourceHeight)
                         [] OTHER -> RDiv(RSub(RInt(imgHeight), sourceHeight), RInt(2)),
                sw |-> RInt(imgWidth), sh |-> sourceHeight]

CropRect(imgWidth, imgHeight, mediaType, cropPosition) ==
  LET targetAspect == TargetAspect(mediaType)
      sourceAspect == Rat(imgWidth, imgHeight)
  IN  IF RLt(targetAspect, sourceAspect)
      THEN LET sourceWidth == RMul(RInt(imgHeight), targetAspect)
           IN  [sx |-> CASE cropPosition = "left" -> RZero
                         [] cropPosition = "right" -> RSub(RInt(imgWidth), sourceWidth)
                         [] OTHER -> RDiv(RSub(RInt(imgWidth), sourceWidth), RInt(2)),
                sy |-> RZero, sw |-> sourceWidth, sh |-> RInt(imgHeight)]
      ELSE LET sourceHeight == RDiv(RInt(imgWidth), targetAspect)
           IN  [sx |-> RZero,
                sy |-> CASE cropPosition = "top" -> RZero
                         [] cropPosition = "bottom" -> RSub(RInt(imgHeight), sourceHeight)
                         [] OTHER -> RDiv(RSub(RInt(imgHeight), sourceHeight), RInt(2)),
                sw |-> RInt(imgWidth), sh |-> sourceHeight]

(***************************************************************************)
(* Inputs and environment outcomes.                                        *)
(***************************************************************************)
\* Which resizeImage is called: the one with crop anchors and the size-driven
\* second pass ("crop"), or the single-pass one of src/utils ("plain").
Impl == {"crop", "plain"}

\* quality = 0.92 by default; the caller may pass 0.75.
DefaultQuality == 92
LowQuality == 75
RecompressQuality == 60

\* Source files: byte sizes on both sides of 10 MiB.
FileSizes == {10 * MiB, 10 * MiB + 1}
ImageFiles == [type : {"image"}, size : FileSizes]
VideoFiles == [type : {"video"}, size : FileSizes]

\* Natural sizes a decoded source may have: a small grid, the catalog's own
\* dimensions and the 4000x2000 example.
SourceSizes ==
  ((1..MaxDim) \X (1..MaxDim))
    \cup {<<MEDIA_SPECS[m].width, MEDIA_SPECS[m].height>> : m \in MediaType}
    \cup {<<4000, 2000>>}

\* Byte sizes an encode may produce: at and just above every catalog maxSize,
\* and just below the 5 MiB representation threshold.
BlobSizes ==
  {MEDIA_SPECS[m].maxSize + d : m \in MediaType, d \in {0, 1}} \cup {5 * MiB - 1}

\* null (a record, so that it compares with the records it stands in for).
NoValue == [null |-> TRUE]

VARIABLES
  pc,            \* resizeImage: which callback is awaited
  call,          \* resizeImage: its arguments
  img,           \* the decoded image's natural size
  rect,          \* the source rectangle given to drawImage
  canvas,        \* canvas.width, canvas.height
  encodeLog,     \* every canvas encode performed: toBlob and toDataURL calls
  blob,          \* the blob of the first toBlob callback
  promise,       \* state of the promise resizeImage returned
  result,        \* the value it was resolved with
  error,         \* the message it was rejected with
  resolveCalls,  \* calls of resolve(...)
  rejectCalls,   \* calls of reject(...)
  failure,       \* history: the step the environment failed (read, decode, ...)
  vpc,           \* resizeVideo: which event is awaited
  vcall,         \* resizeVideo: its arguments
  video,         \* videoWidth, videoHeight
  vcanvas,       \* thumbnail canvas size
  thumbnail,     \* the thumbnail blob
  vpromise,      \* state of the promise resizeVideo returned
  vresult,
  verror,
  vurl,          \* the object URL of the file: created, and how often revoked
  dmt,           \* the last detectMediaType call: arguments and returned value
  ffs,           \* the last formatFileSize call: argument and returned value
  component,     \* which MediaResizer component is mounted
  selectedFile,  \* component state: the chosen File, or null
  selectedMediaType, \* component state: the target format
  uiCropPosition, \* component state `cropPosition`: the crop anchor
  processing,    \* component state: the busy flag
  uiResult,      \* component state `result`: the displayed ResizeResult, or null
  preview,       \* component state: the preview URL, or null
  objectURLs,    \* objectURLs[u]: how often the u-th created object URL was revoked
  held,          \* the object URLs that preview or result have referenced
  loading,       \* the Image / video elements of handleFileSelect still loading
  requests,      \* every handleResize call made, with its arguments and outcome
  selections,    \* how many files have been chosen
  displayed,     \* which handleResize call produced the displayed result
  calls,         \* concurrent resizeImage calls: calls[i] is the i-th call's state
  canvases       \* every canvas element created, with the bitmap it holds

imageVars ==
  <<pc, call, img, rect, canvas, encodeLog, blob, promise, result, error,
    resolveCalls, rejectCalls, failure>>
videoVars ==
  <<vpc, vcall, video, vcanvas, thumbnail, vpromise, vresult, verror, vurl>>
utilVars == <<dmt, ffs>>
uiVars == <<component, selectedFile, selectedMediaType, uiCropPosition, processing,
            uiResult, preview, objectURLs, held, loading, requests, selections, displayed>>
concVars == <<calls, canvases>>
vars == <<imageVars, videoVars, utilVars, uiVars, concVars>>

\* What the resizeImage actions leave alone, and what the resizeVideo ones do.
notImage == <<videoVars, utilVars, uiVars, concVars>>
notVideo == <<imageVars, utilVars, uiVars, concVars>>
notUtil == <<imageVars, videoVars, uiVars, concVars>>
notUI == <<imageVars, videoVars, utilVars, concVars>>
notConc == <<imageVars, videoVars, utilVars, uiVars>>

\* No resizeImage and no resizeVideo call has been made.
IdleInit ==
  /\ pc = "idle"
  /\ call = NoValue
  /\ img = NoValue
  /\ rect = NoValue
  /\ canvas = NoValue
  /\ encodeLog = <<>>
  /\ blob = NoValue
  /\ promise = "none"
  /\ result = NoValue
  /\ error = NoValue
  /\ resolveCalls = 0
  /\ rejectCalls = 0
  /\ failure = NoValue
  /\ vpc = "idle"
  /\ vcall = NoValue
  /\ video = NoValue
  /\ vcanvas = NoValue
  /\ thumbnail = NoValue
  /\ vpromise = "none"
  /\ vresult = NoValue
  /\ verror = NoValue
  /\ vurl = NoValue

\* How many resizeImage calls are in flight together.
NumCalls == 2

\* A call not yet made.
IdleCall ==
  [pc |-> "idle", args |-> NoValue, canvas |-> 0, capture |-> NoValue,
   blob |-> NoValue, value |-> NoValue, error |-> NoValue]

\* No concurrent call has been made and no canvas exists.
NoCalls ==
  /\ calls = [i \in 1..NumCalls |-> IdleCall]
  /\ canvases = <<>>

\* The two components named MediaResizer: the one in DashboardView.tsx and
\* the one in MediaResizer.tsx.
Components == {"dashboard", "standalone"}

\* The component c as mounted: its useState initial values.
Mounted(c) ==
  /\ component = c
  /\ selectedFile = NoValue
  /\ selectedMediaType = "instagram-post"
  /\ uiCropPosition = "center"
  /\ processing = FALSE
  /\ uiResult = NoValue
  /\ preview = NoValue
  /\ objectURLs = <<>>
  /\ held = {}
  /\ loading = {}
  /\ requests = <<>>
  /\ selections = 0
  /\ displayed = 0

Init ==
  /\ IdleInit
  /\ dmt = NoValue
  /\ ffs = NoValue
  /\ Mounted("dashboard")
  /\ NoCalls

(***************************************************************************)
(* resizeImage.                                                            *)
(***************************************************************************)
\* resolve(value): settles a pending promise; a settled one is left as it is.
Resolve(value) ==
  /\ resolveCalls' = resolveCalls + 1
  /\ promise' = IF promise = "pending" THEN "fulfilled" ELSE promise
  /\ result' = IF promise = "pending" THEN value ELSE result
  /\ UNCHANGED <<error, rejectCalls>>

\* reject(new Error(message))
Reject(message) ==
  /\ rejectCalls' = rejectCalls + 1
  /\ promise' = IF promise = "pending" THEN "rejected" ELSE promise
  /\ error' = IF promise = "pending" THEN [message |-> message] ELSE error
  /\ UNCHANGED <<result, resolveCalls>>

\* The object resizeImage resolves with.
ImageResultTransposed(b, url, mediaType, file) ==
  [blob |-> b, url |-> url,
   width |-> MEDIA_SPECS[mediaType].height, height |-> MEDIA_SPECS[mediaType].width,
   size |-> b.size, originalSize |-> file.size]

ImageResult(b, url, mediaType, file) ==
  [blob |-> b, url |-> url,
   width |-> MEDIA_SPECS[mediaType].width, height |-> MEDIA_SPECS[mediaType].height,
   size |-> b.size, originalSize |-> file.size]

\* A ceiling test that also catches a blob of exactly 10 MiB.
TooLargeInclusive(b) == b.size >= 10 * MiB

\* blob.size > 10 * 1024 * 1024
TooLarge(b) == b.size > 10 * MiB

\* A representation test that also inlines a blob of exactly 5 MiB.
UseDataURLInclusive(b) == b.size <= 5 * MiB

\* blob.size < 5 * 1024 * 1024
UseDataURL(b) == b.size < 5 * MiB

\* The call itself: new Promise, new FileReader, reader.readAsDataURL(file).
\* The plain implementation takes no crop position and always centres.
ResizeImage(impl, file, mediaType, quality, cropPosition) ==
  /\ pc = "idle"
  /\ impl = "plain" => cropPosition = "center"
  /\ call' = [impl |-> impl, file |-> file, mediaType |-> mediaType,
              quality |-> quality, cropPosition |-> cropPosition]
  /\ promise' = "pending"
  /\ pc' = "reading"
  /\ UNCHANGED <<img, rect, canvas, encodeLog, blob, result, error,
                 resolveCalls, rejectCalls, failure>>
  /\ UNCHANGED notImage

\* reader.onload: new Image(), img.src = e.target.result
ReaderOnLoad ==
  /\ pc = "reading"
  /\ pc' = "decoding"
  /\ UNCHANGED <<call, img, rect, canvas, encodeLog, blob, promise, result, error,
                 resolveCalls, rejectCalls, failure>>
  /\ UNCHANGED notImage

\* reader.onerror
ReaderOnError ==
  /\ pc = "reading"
  /\ failure' = [step |-> "read"]
  /\ Reject("Failed to read file")
  /\ pc' = "done"
  /\ UNCHANGED <<call, img, rect, canvas, encodeLog, blob>>
  /\ UNCHANGED notImage

\* A decode failure that nobody handles: no img.onerror is registered.
ImgOnErrorUnhandled ==
  /\ pc = "decoding"
  /\ failure' = [step |-> "decode"]
  /\ pc' = "done"
  /\ UNCHANGED <<call, img, rect, canvas, encodeLog, blob, promise, result, error,
                 resolveCalls, rejectCalls>>
  /\ UNCHANGED notImage

\* img.onerror
ImgOnError ==
  /\ pc = "decoding"
  /\ failure' = [step |-> "decode"]
  /\ Reject("Failed to load image")
  /\ pc' = "done"
  /\ UNCHANGED <<call, img, rect, canvas, encodeLog, blob>>
  /\ UNCHANGED notImage

\* img.onload, for a decoded image of natural size width x height, with the
\* 2D context available or not: crop, size the canvas, draw, first toBlob.
ImgOnLoad(width, height, ctx) ==
  /\ pc = "decoding"
  /\ img' = [width |-> width, height |-> height]
  /\ IF ~ctx
     THEN /\ failure' = [step |-> "context"]
          /\ Reject("Could not get canvas context")
          /\ pc' = "done"
          /\ UNCHANGED <<rect, canvas, encodeLog>>
     ELSE /\ rect' = CropRect(width, height, call.mediaType, call.cropPosition)
          /\ canvas' = [width |-> MEDIA_SPECS[call.mediaType].width,
                        height |-> MEDIA_SPECS[call.mediaType].height]
          /\ encodeLog' = Append(encodeLog, [op |-> "toBlob", quality |-> call.quality])
          /\ pc' = "encoding"
          /\ UNCHANGED <<promise, result, error, resolveCalls, rejectCalls, failure>>
  /\ UNCHANGED <<call, blob>>
  /\ UNCHANGED notImage

\* A first-pass failure answered by trying again at the low quality.
EncodeFailedRetry ==
  /\ failure' = [step |-> "encode"]
  /\ encodeLog' = Append(encodeLog, [op |-> "toBlob", quality |-> RecompressQuality])
  /\ pc' = "recompressing"
  /\ UNCHANGED <<blob, promise, result, error, resolveCalls, rejectCalls>>

\* if (!blob) { reject(new Error('Failed to create blob')); return; }
EncodeFailed ==
  /\ failure' = [step |-> "encode"]
  /\ Reject("Failed to create blob")
  /\ pc' = "done"
  /\ UNCHANGED <<encodeLog, blob>>

\* The first toBlob callback, given a blob or null.
ToBlobCallback(b) ==
  /\ pc = "encoding"
  /\ IF b = NoValue
     THEN EncodeFailed
     ELSE /\ blob' = b
          /\ UNCHANGED failure
          /\ IF call.impl = "crop" /\ TooLarge(b)
             THEN /\ encodeLog' =
                       Append(encodeLog, [op |-> "toBlob", quality |-> RecompressQuality])
                  /\ pc' = "recompressing"
                  /\ UNCHANGED <<promise, result, error, resolveCalls, rejectCalls>>
             ELSE IF call.impl = "crop" /\ UseDataURL(b)
             THEN /\ encodeLog' =
                       Append(encodeLog, [op |-> "toDataURL", quality |-> call.quality])
                  /\ Resolve(ImageResult(b, [kind |-> "data", pass |-> Len(encodeLog) + 1],
                                         call.mediaType, call.file))
                  /\ pc' = "done"
             ELSE /\ Resolve(ImageResult(b, [kind |-> "object", pass |-> b.pass],
                                         call.mediaType, call.file))
                  /\ pc' = "done"
                  /\ UNCHANGED encodeLog
  /\ UNCHANGED <<call, img, rect, canvas>>
  /\ UNCHANGED notImage

\* A second pass that keeps re-encoding while the blob is still too large.
RecompressCallbackLadder(b) ==
  /\ pc = "recompressing"
  /\ IF b = NoValue
     THEN /\ failure' = [step |-> "recompress"]
          /\ Reject("Failed to recompress")
          /\ pc' = "done"
          /\ UNCHANGED encodeLog
     ELSE IF TooLarge(b) /\ Len(encodeLog) < 4
     THEN /\ encodeLog' =
               Append(encodeLog, [op |-> "toBlob", quality |-> RecompressQuality])
          /\ pc' = "recompressing"
          /\ UNCHANGED <<promise, result, error, resolveCalls, rejectCalls, failure>>
     ELSE /\ Resolve(ImageResult(b, [kind |-> "object", pass |-> b.pass],
                                 call.mediaType, call.file))
          /\ pc' = "done"
          /\ UNCHANGED <<encodeLog, failure>>
  /\ UNCHANGED <<call, img, rect, canvas, blob>>
  /\ UNCHANGED notImage

\* The second toBlob callback (quality 0.6), given a blob or null.
RecompressCallback(b) ==
  /\ pc = "recompressing"
  /\ IF b = NoValue
     THEN /\ failure' = [step |-> "recompress"]
          /\ Reject("Failed to recompress")
     ELSE /\ Resolve(ImageResult(b, [kind |-> "object", pass |-> b.pass],
                                 call.mediaType, call.file))
          /\ UNCHANGED failure
  /\ pc' = "done"
  /\ UNCHANGED <<call, img, rect, canvas, encodeLog, blob>>
  /\ UNCHANGED notImage

\* What an encode of pass n may hand to its callback.
EncodeOutcomes(n) == {NoValue} \cup [pass : {n}, size : BlobSizes]

ImageNext ==
  \/ \E impl \in Impl, file \in ImageFiles, mediaType \in MediaType,
        quality \in {DefaultQuality, LowQuality}, cropPosition \in CropPosition :
        ResizeImage(impl, file, mediaType, quality, cropPosition)
  \/ ReaderOnLoad
  \/ ReaderOnError
  \/ ImgOnError
  \/ \E s \in SourceSizes, ctx \in BOOLEAN : ImgOnLoad(s[1], s[2], ctx)
  \/ \E b \in EncodeOutcomes(1) : ToBlobCallback(b)
  \/ \E b \in EncodeOutcomes(2) : RecompressCallback(b)

Spec == Init /\ [][ImageNext]_vars

(***************************************************************************)
(* resizeVideo.                                                            *)
(***************************************************************************)
VResolve(value) ==
  /\ vpromise' = IF vpromise = "pending" THEN "fulfilled" ELSE vpromise
  /\ vresult' = IF vpromise = "pending" THEN value ELSE vresult
  /\ UNCHANGED verror

VReject(message) ==
  /\ vpromise' = IF vpromise = "pending" THEN "rejected" ELSE vpromise
  /\ verror' = IF vpromise = "pending" THEN [message |-> message] ELSE verror
  /\ UNCHANGED vresult

\* URL.revokeObjectURL(url)
Revoke(url) == [url EXCEPT !.revoked = @ + 1]

\* A result built from what was rendered: the thumbnail and the target size.
VideoResultRendered(file, url, videoEl, thumb, mediaType) ==
  [blob |-> thumb, url |-> [kind |-> "object", of |-> url.of],
   width |-> MEDIA_SPECS[mediaType].width, height |-> MEDIA_SPECS[mediaType].height,
   size |-> thumb.size, originalSize |-> file.size]

\* The object resizeVideo resolves with.
VideoResult(file, url, videoEl, thumb, mediaType) ==
  [blob |-> file, url |-> [kind |-> "object", of |-> url.of],
   width |-> videoEl.videoWidth, height |-> videoEl.videoHeight,
   size |-> file.size, originalSize |-> file.size]

\* The call itself: createElement('video'), createObjectURL(file), video.src = url.
ResizeVideo(file, mediaType) ==
  /\ vpc = "idle"
  /\ vcall' = [file |-> file, mediaType |-> mediaType]
  /\ vurl' = [of |-> file, revoked |-> 0]
  /\ vpromise' = "pending"
  /\ vpc' = "loading"
  /\ UNCHANGED <<video, vcanvas, thumbnail, vresult, verror>>
  /\ UNCHANGED notVideo

\* video.onloadedmetadata, for a video of native size width x height, with the
\* 2D context available or not: size the canvas, seek to 1 s, register onseeked.
VideoOnLoadedMetadata(width, height, ctx) ==
  /\ vpc = "loading"
  /\ video' = [videoWidth |-> width, videoHeight |-> height]
  /\ IF ~ctx
     THEN /\ VReject("Could not get canvas context")
          /\ vpc' = "done"
          /\ UNCHANGED vcanvas
     ELSE /\ vcanvas' = [width |-> MEDIA_SPECS[vcall.mediaType].width,
                         height |-> MEDIA_SPECS[vcall.mediaType].height]
          /\ vpc' = "seeking"
          /\ UNCHANGED <<vpromise, vresult, verror>>
  /\ UNCHANGED <<vcall, thumbnail, vurl>>
  /\ UNCHANGED notVideo

\* video.onseeked: draw the frame, toBlob at quality 0.8.
VideoOnSeeked ==
  /\ vpc = "seeking"
  /\ vpc' = "encoding"
  /\ UNCHANGED <<vcall, video, vcanvas, thumbnail, vpromise, vresult, verror, vurl>>
  /\ UNCHANGED notVideo

\* The seek to 1 s fails and no 'seeked' (and no 'error') event is dispatched.
\* resizeVideo registers no other handler, so nothing runs from here on.
VideoSeekFails ==
  /\ vpc = "seeking"
  /\ vpc' = "seekFailed"
  /\ UNCHANGED <<vcall, video, vcanvas, thumbnail, vpromise, vresult, verror, vurl>>
  /\ UNCHANGED notVideo

\* The thumbnail's toBlob callback, given a blob or null.
VideoToBlobCallback(b) ==
  /\ vpc = "encoding"
  /\ IF b = NoValue
     THEN /\ VReject("Failed to create thumbnail")
          /\ UNCHANGED <<thumbnail, vurl>>
     ELSE /\ thumbnail' = b
          /\ VResolve(VideoResult(vcall.file, vurl, video, b, vcall.mediaType))
          /\ vurl' = Revoke(vurl)
  /\ vpc' = "done"
  /\ UNCHANGED <<vcall, video, vcanvas>>
  /\ UNCHANGED notVideo

\* video.onerror, while the metadata loads or during the seek.
VideoOnError ==
  /\ vpc \in {"loading", "seeking"}
  /\ vurl' = Revoke(vurl)
  /\ VReject("Failed to load video")
  /\ vpc' = "done"
  /\ UNCHANGED <<vcall, video, vcanvas, thumbnail>>
  /\ UNCHANGED notVideo

VideoNext ==
  \/ \E file \in VideoFiles, mediaType \in MediaType : ResizeVideo(file, mediaType)
  \/ \E s \in SourceSizes, ctx \in BOOLEAN : VideoOnLoadedMetadata(s[1], s[2], ctx)
  \/ VideoOnSeeked
  \/ VideoSeekFails
  \/ \E b \in EncodeOutcomes(1) : VideoToBlobCallback(b)
  \/ VideoOnError

VideoSpec == Init /\ [][VideoNext]_vars

(***************************************************************************)
(* Fairness: every callback that resizeImage has registered eventually     *)
(* fires (the file read ends, the decode ends, each encode calls back).    *)
(***************************************************************************)
ReaderEvent == ReaderOnLoad \/ ReaderOnError
ImgEvent == ImgOnError \/ \E s \in SourceSizes, ctx \in BOOLEAN : ImgOnLoad(s[1], s[2], ctx)
FirstEncodeEvent == \E b \in EncodeOutcomes(1) : ToBlobCallback(b)
SecondEncodeEvent == \E b \in EncodeOutcomes(2) : RecompressCallback(b)

LiveSpec ==
  /\ Spec
  /\ WF_vars(ReaderEvent)
  /\ WF_vars(ImgEvent)
  /\ WF_vars(FirstEncodeEvent)
  /\ WF_vars(SecondEncodeEvent)

(***************************************************************************)
(* detectMediaType.                                                        *)
(***************************************************************************)
\* Largest numerator of the aspect ratios n/20 enumerated (45/20 = 2.25).
MaxAspectNum == 45

\* Platform strings: the five the code names and one it does not.
Platforms == {"instagram", "twitter", "facebook", "linkedin", "tiktok", "youtube"}

\* An aspectRatio argument that was passed: the number r.
Supplied(r) == [value |-> r]

\* aspectRatio?: undefined, or a number in steps of 0.05 from 0.
AspectRatios == {NoValue} \cup {Supplied(Rat(n, 20)) : n \in 0..MaxAspectNum}

\* !aspectRatio: undefined and the number 0 are both falsy.
Falsy(aspectRatio) == aspectRatio = NoValue \/ aspectRatio.value[1] = 0

\* A default table that lacks the 'linkedin' line.
PlatformDefaultNoLinkedin(platform) ==
  CASE platform = "instagram" -> "instagram-post"
    [] platform = "twitter" -> "twitter-post"
    [] platform = "facebook" -> "facebook-post"
    [] OTHER -> "instagram-post"

\* The branch taken when !aspectRatio.
PlatformDefault(platform) ==
  CASE platform = "instagram" -> "instagram-post"
    [] platform = "twitter" -> "twitter-post"
    [] platform = "facebook" -> "facebook-post"
    [] platform = "linkedin" -> "linkedin-post"
    [] OTHER -> "instagram-post"

\* A tall test that leaves out the upper end 0.6.
IsTallExclusive(r) == RLe(Rat(1, 2), r) /\ RLt(r, Rat(3, 5))

\* aspectRatio >= 0.5 && aspectRatio <= 0.6
IsTall(r) == RLe(Rat(1, 2), r) /\ RLe(r, Rat(3, 5))

\* aspectRatio >= 0.9 && aspectRatio <= 1.1
IsSquare(r) == RLe(Rat(9, 10), r) /\ RLe(r, Rat(11, 10))

\* A wide test that leaves out the lower end 1.5.
IsWideExclusive(r) == RLt(Rat(3, 2), r) /\ RLe(r, RInt(2))

\* aspectRatio >= 1.5 && aspectRatio <= 2.0
IsWide(r) == RLe(Rat(3, 2), r) /\ RLe(r, RInt(2))

DetectMediaType(platform, aspectRatio) ==
  IF Falsy(aspectRatio) THEN PlatformDefault(platform)
  ELSE LET r == aspectRatio.value
       IN  IF IsTall(r)
           THEN CASE platform = "instagram" -> "instagram-story"
                  [] platform = "tiktok" -> "tiktok-video"
                  [] OTHER -> "instagram-reel"
           ELSE IF IsSquare(r) THEN "instagram-post"
           ELSE IF IsWide(r) /\ platform \in {"twitter", "facebook", "linkedin"}
           THEN CASE platform = "twitter" -> "twitter-post"
                  [] platform = "facebook" -> "facebook-post"
                  [] OTHER -> "linkedin-post"
           ELSE "instagram-post"

\* One call of detectMediaType(platform, aspectRatio).
DetectMediaTypeCall(platform, aspectRatio) ==
  /\ dmt' = [platform |-> platform, aspectRatio |-> aspectRatio,
             returned |-> DetectMediaType(platform, aspectRatio)]
  /\ UNCHANGED ffs
  /\ UNCHANGED notUtil

DetectNext ==
  \E platform \in Platforms, aspectRatio \in AspectRatios :
    DetectMediaTypeCall(platform, aspectRatio)

DetectSpec == Init /\ [][DetectNext]_vars

(***************************************************************************)
(* formatFileSize.  A byte count is a JavaScript number holding an integer *)
(* below 2^53; it is written here in base k as a sequence of digits, least *)
(* significant first, so that counts of a tebibyte fit.  On such counts    *)
(* bytes / k^i, the product with 100 and Math.round are exact in doubles.  *)
(***************************************************************************)
\* const k = 1024
KBase == 1024

\* const sizes = ['Bytes', 'KB', 'MB', 'GB'] (sizes[i] is Sizes[i + 1]).
Sizes == <<"Bytes", "KB", "MB", "GB">>

\* Carry propagation: the digits of the number whose places hold s, plus carry.
RECURSIVE BigNorm(_, _)
BigNorm(s, carry) ==
  IF s = <<>>
  THEN IF carry = 0 THEN <<>>
       ELSE <<carry % KBase>> \o BigNorm(<<>>, carry \div KBase)
  ELSE LET t == Head(s) + carry
       IN  <<t % KBase>> \o BigNorm(Tail(s), t \div KBase)

\* The digits without leading (most significant) zeros.
RECURSIVE BigTrim(_)
BigTrim(s) ==
  IF s = <<>> \/ s[Len(s)] # 0 THEN s ELSE BigTrim(SubSeq(s, 1, Len(s) - 1))

RECURSIVE TopLe(_, _, _)
TopLe(x, y, n) ==
  IF n = 0 THEN TRUE
  ELSE IF x[n] # y[n] THEN x[n] < y[n]
  ELSE TopLe(x, y, n - 1)

\* a <= b and a < b on digit sequences.
BigLe(a, b) ==
  LET x == BigTrim(a)
      y == BigTrim(b)
  IN  IF Len(x) # Len(y) THEN Len(x) < Len(y) ELSE TopLe(x, y, Len(x))

BigLt(a, b) == ~BigLe(b, a)

BigAdd(a, b) ==
  LET n == IF Len(a) > Len(b) THEN Len(a) ELSE Len(b)
      At(q, j) == IF j <= Len(q) THEN q[j] ELSE 0
  IN  BigNorm([j \in 1..n |-> At(a, j) + At(b, j)], 0)

\* a * m for a small integer m.
BigMulSmall(a, m) == BigNorm([j \in 1..Len(a) |-> a[j] * m], 0)

\* Math.pow(k, i)
Pow(i) == [j \in 1..(i + 1) |-> IF j = i + 1 THEN 1 ELSE 0]

\* a * k^i and floor(a / k^i).
ShiftLeft(a, i) == [j \in 1..i |-> 0] \o a
ShiftRight(a, i) == SubSeq(a, i + 1, Len(a))

\* The integer a digit sequence denotes (for sequences that fit).
RECURSIVE BigToInt(_)
BigToInt(s) == IF s = <<>> THEN 0 ELSE Head(s) + KBase * BigToInt(Tail(s))

\* Digits the enumerated byte counts are made of.
Digits == {0, 1, 5, 6, 10, 512, 1023}

\* Byte counts from 0 to below 2 * 1024^4.
ByteCounts ==
  {<<d0, d1, d2, d3, d4>> : d0 \in Digits, d1 \in Digits, d2 \in Digits,
                            d3 \in Digits, d4 \in {0, 1}}

\* Math.floor(Math.log(bytes) / Math.log(k)), for bytes >= 1.
RECURSIVE FloorLog(_)
FloorLog(bytes) ==
  IF BigTrim(ShiftRight(bytes, 1)) = <<>> THEN 0
  ELSE 1 + FloorLog(ShiftRight(bytes, 1))

\* A rounding that truncates: Math.floor((bytes / k^i) * 100).
HundredthsFloor(bytes, i) ==
  BigToInt(ShiftRight(BigMulSmall(bytes, 100), i))

\* Math.round((bytes / Math.pow(k, i)) * 100): floor(x * 100 + 1/2).
Hundredths(bytes, i) ==
  BigToInt(ShiftRight(BigAdd(BigMulSmall(bytes, 200), Pow(i)), i)) \div 2

\* The string JavaScript gives the number h / 100: no trailing zeros, no
\* decimal point for an integer.
NumberToString(h) ==
  LET whole == ToString(h \div 100)
      frac == h % 100
  IN  IF frac = 0 THEN whole
      ELSE IF frac % 10 = 0 THEN whole \o "." \o ToString(frac \div 10)
      ELSE whole \o "." \o ToString(frac \div 10) \o ToString(frac % 10)

\* sizes[i] inside a string concatenation: "undefined" past the end.
SizeLabel(i) == IF i + 1 \in DOMAIN Sizes THEN Sizes[i + 1] ELSE "undefined"

FormatFileSize(bytes) ==
  IF BigTrim(bytes) = <<>> THEN "0 Bytes"
  ELSE LET i == FloorLog(bytes)
       IN  NumberToString(Hundredths(bytes, i)) \o " " \o SizeLabel(i)

\* The call of formatFileSize(bytes) on the argument it was handed.
FormatFileSizeCall ==
  /\ ffs # NoValue
  /\ "returned" \notin DOMAIN ffs
  /\ ffs' = [bytes |-> ffs.bytes, returned |-> FormatFileSize(ffs.bytes)]
  /\ UNCHANGED dmt
  /\ UNCHANGED notUtil

FormatNext == FormatFileSizeCall

\* A caller about to format one of the byte counts.
FormatInit ==
  /\ IdleInit
  /\ dmt = NoValue
  /\ ffs \in [bytes : ByteCounts]
  /\ Mounted("dashboard")
  /\ NoCalls

FormatSpec == FormatInit /\ [][FormatNext]_vars

(***************************************************************************)
(* The MediaResizer component.  Its handlers run to completion one at a    *)
(* time; a handleResize call is suspended at its await until the engine's  *)
(* promise settles, and several may be suspended at once.  An object URL   *)
(* is [kind |-> "object", id |-> u], its revocations counted in            *)
(* objectURLs[u]; a data URL is [kind |-> "data", request |-> k].          *)
(***************************************************************************)
\* How many files are chosen and how many handleResize calls are made.
MaxSelections == 2
MaxRequests == 3

\* The platform prop: its default, which MediaResizerView leaves in place.
platformProp == "instagram"

\* Files a user may choose: images at and above the 10 MiB quality threshold,
\* a video, and a file that is neither.
UIFiles ==
  [type : {"image"}, size : FileSizes]
    \cup [type : {"video", "other"}, size : {10 * MiB}]

\* Formats and anchors clicked, and natural sizes the preview and a video
\* may decode to.
FormatChoices == {"instagram-post", "twitter-post"}
CropChoices == {"center", "top"}
PreviewSizes == {<<1, 1>>}
VideoSizes == {<<1, 2>>}

\* Sizes the engine's encodes produce for the component.
UIBlobSizes == {5 * MiB - 1, 5 * MiB, 10 * MiB + 1}
UIEncodeOutcomes(n) == {NoValue} \cup [pass : {n}, size : UIBlobSizes]

\* What the second toBlob hands over: null, or a blob still above 10 MiB.
UIRecompressOutcomes == {NoValue, [pass |-> 2, size |-> 10 * MiB + 1]}

\* url.startsWith('blob:')
IsBlobURL(url) == url # NoValue /\ url.kind = "object"

\* URL.createObjectURL: the URL created next, and the table with it.
NewObjectURL(urls) == [kind |-> "object", id |-> Len(urls) + 1]
CreateObjectURL(urls) == Append(urls, 0)

\* URL.revokeObjectURL(url)
RevokeObjectURL(urls, url) == [urls EXCEPT ![url.id] = @ + 1]

\* A handleResize call that has finished and whose result is not (or no
\* longer) displayed: its closure is gone, only its outcome is remembered.
Finished(state) == [state |-> state]
Retire(reqs, d) == IF d = 0 THEN reqs ELSE [reqs EXCEPT ![d] = Finished("fulfilled")]

\* handleFileSelect in DashboardView.tsx.
DashboardFileSelect(file) ==
  LET f == [id |-> selections + 1, type |-> file.type, size |-> file.size]
      revoked == IF IsBlobURL(preview) THEN RevokeObjectURL(objectURLs, preview)
                 ELSE objectURLs
      previewUrl == NewObjectURL(revoked)
  IN  /\ component = "dashboard"
      /\ selections < MaxSelections
      /\ selections' = selections + 1
      /\ selectedFile' = f
      /\ uiResult' = NoValue
      /\ displayed' = 0
      /\ requests' = Retire(requests, displayed)
      /\ objectURLs' = CreateObjectURL(revoked)
      /\ preview' = previewUrl
      /\ held' = held \cup {previewUrl}
      /\ loading' = IF f.type \in {"image", "video"}
                    THEN loading \cup {[file |-> f, url |-> previewUrl]}
                    ELSE loading
      /\ UNCHANGED <<component, selectedMediaType, uiCropPosition, processing>>
      /\ UNCHANGED notUI

\* handleFileSelect in MediaResizer.tsx: the old preview URL is not revoked.
StandaloneFileSelect(file) ==
  LET f == [id |-> selections + 1, type |-> file.type, size |-> file.size]
      previewUrl == NewObjectURL(objectURLs)
  IN  /\ component = "standalone"
      /\ selections < MaxSelections
      /\ selections' = selections + 1
      /\ selectedFile' = f
      /\ uiResult' = NoValue
      /\ displayed' = 0
      /\ requests' = Retire(requests, displayed)
      /\ objectURLs' = CreateObjectURL(objectURLs)
      /\ preview' = previewUrl
      /\ held' = held \cup {previewUrl}
      /\ loading' = IF f.type \in {"image", "video"}
                    THEN loading \cup {[file |-> f, url |-> previewUrl]}
                    ELSE loading
      /\ UNCHANGED <<component, selectedMediaType, uiCropPosition, processing>>
      /\ UNCHANGED notUI

\* img.onload / video.onloadedmetadata of handleFileSelect: the format is
\* detected from the natural size.  DashboardView.tsx drops the value detected
\* for a video; MediaResizer.tsx stores it and revokes the preview URL.
PreviewOnLoad(l, width, height) ==
  LET detectedType == DetectMediaType(platformProp, Supplied(Rat(width, height)))
  IN  /\ l \in loading
      /\ loading' = loading \ {l}
      /\ selectedMediaType' =
           IF component = "standalone" \/ l.file.type = "image"
           THEN detectedType ELSE selectedMediaType
      /\ objectURLs' = IF component = "standalone"
                       THEN RevokeObjectURL(objectURLs, l.url) ELSE objectURLs
      /\ UNCHANGED <<component, selectedFile, uiCropPosition, processing, uiResult,
                     preview, held, requests, selections, displayed>>
      /\ UNCHANGED notUI

\* const quality = selectedFile.size > 10 * 1024 * 1024 ? 0.75 : 0.92
InitialQuality(file) == IF file.size > 10 * MiB THEN LowQuality ELSE DefaultQuality

\* handleResize up to its await, on the state its closure captured: the
\* engine call it makes, or the 'Unsupported file type' error it throws and
\* catches at once.  resizeVideo creates its object URL inside the call.
HandleResize(file, mediaType, position) ==
  LET request ==
        [file |-> file, mediaType |-> mediaType,
         impl |-> IF component = "dashboard" THEN "crop" ELSE "plain",
         quality |-> IF component = "dashboard" THEN InitialQuality(file)
                     ELSE DefaultQuality,
         cropPosition |-> IF component = "dashboard" THEN position ELSE "center",
         state |-> "pending", url |-> NoValue]
  IN  /\ Len(requests) < MaxRequests
      /\ CASE file.type = "image" ->
                /\ requests' = Append(requests, request)
                /\ objectURLs' = objectURLs
                /\ processing' = TRUE
           [] file.type = "video" ->
                /\ requests' = Append(requests,
                                  [request EXCEPT !.url = NewObjectURL(objectURLs)])
                /\ objectURLs' = CreateObjectURL(objectURLs)
                /\ processing' = TRUE
           [] OTHER ->
                /\ requests' = Append(requests, Finished("rejected"))
                /\ objectURLs' = objectURLs
                /\ processing' = FALSE

\* The Resize button: shown while there is a file and no result, disabled
\* while processing.
ClickResize ==
  /\ selectedFile # NoValue
  /\ uiResult = NoValue
  /\ ~processing
  /\ HandleResize(selectedFile, selectedMediaType, uiCropPosition)
  /\ UNCHANGED <<component, selectedFile, selectedMediaType, uiCropPosition, uiResult,
                 preview, held, loading, selections, displayed>>
  /\ UNCHANGED notUI

\* A Target Format button.  In DashboardView.tsx a displayed result makes it
\* call handleResize, whose closure still holds the format of this render.
ClickFormat(type) ==
  /\ selectedFile # NoValue
  /\ selectedMediaType' = type
  /\ IF component = "dashboard" /\ uiResult # NoValue
     THEN HandleResize(selectedFile, selectedMediaType, uiCropPosition)
     ELSE UNCHANGED <<requests, objectURLs, processing>>
  /\ UNCHANGED <<component, selectedFile, uiCropPosition, uiResult, preview, held,
                 loading, selections, displayed>>
  /\ UNCHANGED notUI

\* A Crop Position button (DashboardView.tsx only), with the same closure.
ClickCrop(position) ==
  /\ component = "dashboard"
  /\ selectedFile # NoValue
  /\ uiCropPosition' = position
  /\ IF uiResult # NoValue
     THEN HandleResize(selectedFile, selectedMediaType, uiCropPosition)
     ELSE UNCHANGED <<requests, objectURLs, processing>>
  /\ UNCHANGED <<component, selectedFile, selectedMediaType, uiResult, preview, held,
                 loading, selections, displayed>>
  /\ UNCHANGED notUI

\* What resizeImage resolves with for the component, from its encodes: null
\* when it rejects.  The plain implementation encodes once into an object URL.
ImageOutcome(request, k, first, second, urls) ==
  IF first = NoValue THEN NoValue
  ELSE IF request.impl = "crop" /\ TooLarge(first)
  THEN IF second = NoValue THEN NoValue
       ELSE ImageResult(second, NewObjectURL(urls), request.mediaType, request.file)
  ELSE IF request.impl = "crop" /\ UseDataURL(first)
  THEN ImageResult(first, [kind |-> "data", request |-> k], request.mediaType,
                   request.file)
  ELSE ImageResult(first, NewObjectURL(urls), request.mediaType, request.file)

\* The rest of handleResize after resizeImage resolved: setResult, and
\* setProcessing(false) in finally.
ImageResolves(k, first, second) ==
  LET value == ImageOutcome(requests[k], k, first, second, objectURLs)
  IN  /\ k \in DOMAIN requests
      /\ requests[k].state = "pending"
      /\ requests[k].file.type = "image"
      /\ value # NoValue
      /\ second = NoValue \/ TooLarge(first)
      /\ requests' = [Retire(requests, displayed) EXCEPT ![k].state = "fulfilled"]
      /\ displayed' = k
      /\ objectURLs' = IF IsBlobURL(value.url) THEN CreateObjectURL(objectURLs)
                       ELSE objectURLs
      /\ uiResult' = value
      /\ held' = IF IsBlobURL(value.url) THEN held \cup {value.url} ELSE held
      /\ processing' = FALSE
      /\ UNCHANGED <<component, selectedFile, selectedMediaType, uiCropPosition,
                     preview, loading, selections>>
      /\ UNCHANGED notUI

\* The rest of handleResize after resizeVideo resolved with the file and its
\* object URL, which resizeVideo revokes right after resolving.
VideoResolves(k, width, height) ==
  LET request == requests[k]
      value == [blob |-> request.file, url |-> request.url,
                width |-> width, height |-> height,
                size |-> request.file.size, originalSize |-> request.file.size]
  IN  /\ k \in DOMAIN requests
      /\ request.state = "pending"
      /\ request.file.type = "video"
      /\ requests' = [Retire(requests, displayed) EXCEPT ![k].state = "fulfilled"]
      /\ displayed' = k
      /\ objectURLs' = RevokeObjectURL(objectURLs, request.url)
      /\ uiResult' = value
      /\ held' = held \cup {value.url}
      /\ processing' = FALSE
      /\ UNCHANGED <<component, selectedFile, selectedMediaType, uiCropPosition,
                     preview, loading, selections>>
      /\ UNCHANGED notUI

\* The catch and finally of handleResize after the engine rejected: alert and
\* setProcessing(false).  resizeVideo revokes its URL before rejecting.
ResizeRejects(k) ==
  /\ k \in DOMAIN requests
  /\ requests[k].state = "pending"
  /\ requests' = [requests EXCEPT ![k] = Finished("rejected")]
  /\ objectURLs' = IF requests[k].file.type = "video"
                   THEN RevokeObjectURL(objectURLs, requests[k].url)
                   ELSE objectURLs
  /\ processing' = FALSE
  /\ UNCHANGED <<component, selectedFile, selectedMediaType, uiCropPosition, uiResult,
                 preview, held, loading, selections, displayed>>
  /\ UNCHANGED notUI

\* handleReset in DashboardView.tsx: both URLs are revoked when they are blob
\* URLs.
DashboardReset ==
  LET r1 == IF IsBlobURL(preview) THEN RevokeObjectURL(objectURLs, preview)
            ELSE objectURLs
      r2 == IF uiResult # NoValue /\ IsBlobURL(uiResult.url)
            THEN RevokeObjectURL(r1, uiResult.url) ELSE r1
  IN  /\ component = "dashboard"
      /\ selectedFile # NoValue
      /\ objectURLs' = r2
      /\ selectedFile' = NoValue
      /\ uiResult' = NoValue
      /\ displayed' = 0
      /\ requests' = Retire(requests, displayed)
      /\ preview' = NoValue
      /\ UNCHANGED <<component, selectedMediaType, uiCropPosition, processing, held,
                     loading, selections>>
      /\ UNCHANGED notUI

\* handleReset in MediaResizer.tsx: nothing is revoked.
StandaloneReset ==
  /\ component = "standalone"
  /\ selectedFile # NoValue
  /\ selectedFile' = NoValue
  /\ uiResult' = NoValue
  /\ displayed' = 0
  /\ requests' = Retire(requests, displayed)
  /\ preview' = NoValue
  /\ UNCHANGED <<component, selectedMediaType, uiCropPosition, processing, objectURLs,
                 held, loading, selections>>
  /\ UNCHANGED notUI

\* formatFileSize on a number that may be negative: Math.log of a negative
\* number is NaN, and so are the index and the quotient.
FormatFileSizeNumber(n) ==
  IF n < 0 THEN "NaN" \o " " \o "undefined" ELSE FormatFileSize(BigNorm(<<n>>, 0))

\* The Results panel rendered for a displayed result: its three size strings.
SizeReport(r) ==
  [originalSize |-> FormatFileSizeNumber(r.originalSize),
   newSize |-> FormatFileSizeNumber(r.size),
   saved |-> FormatFileSizeNumber(r.originalSize - r.size)]

UINext ==
  \/ \E file \in UIFiles : DashboardFileSelect(file)
  \/ \E file \in UIFiles : StandaloneFileSelect(file)
  \/ \E l \in loading, s \in PreviewSizes : PreviewOnLoad(l, s[1], s[2])
  \/ ClickResize
  \/ \E type \in FormatChoices : ClickFormat(type)
  \/ \E position \in CropChoices : ClickCrop(position)
  \/ \E k \in 1..MaxRequests, first \in UIEncodeOutcomes(1),
        second \in UIRecompressOutcomes : ImageResolves(k, first, second)
  \/ \E k \in 1..MaxRequests, s \in VideoSizes : VideoResolves(k, s[1], s[2])
  \/ \E k \in 1..MaxRequests : ResizeRejects(k)
  \/ DashboardReset
  \/ StandaloneReset

\* Either component, freshly mounted.
UIInit ==
  /\ IdleInit
  /\ dmt = NoValue
  /\ ffs = NoValue
  /\ \E c \in Components : Mounted(c)
  /\ NoCalls

UISpec == UIInit /\ [][UINext]_vars

(***************************************************************************)
(* Several resizeImage calls (the implementation with crop anchors) in     *)
(* flight at once.  Each call has its own FileReader, Image and promise;   *)
(* canvas elements live in one document, so they are kept in a table and   *)
(* a call holds the index of the canvas it created.  Decoding and encoding *)
(* are deterministic: a file decodes to its natural size, and an encode's  *)
(* byte size is a function of the bitmap encoded and the quality.  toBlob  *)
(* and toDataURL encode the bitmap the canvas holds when they are called.  *)
(***************************************************************************)
\* Source images: their encodes at quality 0.92 fall below 5 MiB, between
\* 5 MiB and 10 MiB, and above 10 MiB.
ConcFiles ==
  {[type |-> "image", size |-> 4 * MiB, width |-> 4000, height |-> 2000],
   [type |-> "image", size |-> 8 * MiB, width |-> 1080, height |-> 1080],
   [type |-> "image", size |-> 16 * MiB, width |-> 2, height |-> 3]}

ConcMediaTypes == {"instagram-post", "instagram-story"}
ConcCrops == {"center", "left"}

\* A createElement that hands every call the same canvas.
NewCanvasShared(table) == 1

\* document.createElement('canvas'): a canvas no one else holds.
NewCanvas(table) == Len(table) + 1

\* The bitmap after canvas.width, canvas.height, fillRect and drawImage.
Drawn(args) ==
  [width |-> MEDIA_SPECS[args.mediaType].width,
   height |-> MEDIA_SPECS[args.mediaType].height,
   file |-> args.file,
   rect |-> CropRect(args.file.width, args.file.height, args.mediaType,
                     args.cropPosition)]

\* The deterministic encoder: the blob of a bitmap at a quality.
Encode(bitmap, quality, pass) ==
  [pass |-> pass, size |-> (bitmap.file.size \div 100) * quality, bitmap |-> bitmap]

\* resizeImage(file, mediaType, quality, cropPosition) by call i.
CallResizeImage(i, file, mediaType, quality, position) ==
  /\ calls[i].pc = "idle"
  /\ calls' = [calls EXCEPT ![i].pc = "reading",
                            ![i].args = [file |-> file, mediaType |-> mediaType,
                                         quality |-> quality,
                                         cropPosition |-> position]]
  /\ UNCHANGED canvases
  /\ UNCHANGED notConc

\* reader.onload of call i.
CallReaderOnLoad(i) ==
  /\ calls[i].pc = "reading"
  /\ calls' = [calls EXCEPT ![i].pc = "decoding"]
  /\ UNCHANGED canvases
  /\ UNCHANGED notConc

\* reader.onerror of call i.
CallReaderOnError(i) ==
  /\ calls[i].pc = "reading"
  /\ calls' = [calls EXCEPT ![i].pc = "rejected",
                            ![i].error = [message |-> "Failed to read file"]]
  /\ UNCHANGED canvases
  /\ UNCHANGED notConc

\* img.onerror of call i.
CallImgOnError(i) ==
  /\ calls[i].pc = "decoding"
  /\ calls' = [calls EXCEPT ![i].pc = "rejected",
                            ![i].error = [message |-> "Failed to load image"]]
  /\ UNCHANGED canvases
  /\ UNCHANGED notConc

\* img.onload of call i: the canvas is created, sized and drawn, and toBlob
\* is called on what it holds.
CallImgOnLoad(i, ctx) ==
  LET id == NewCanvas(canvases)
      bitmap == Drawn(calls[i].args)
  IN  /\ calls[i].pc = "decoding"
      /\ IF ~ctx
         THEN /\ calls' = [calls EXCEPT
                             ![i].pc = "rejected",
                             ![i].error = [message |-> "Could not get canvas context"]]
              /\ UNCHANGED canvases
         ELSE /\ canvases' = IF id \in DOMAIN canvases
                             THEN [canvases EXCEPT ![id] = bitmap]
                             ELSE Append(canvases, bitmap)
              /\ calls' = [calls EXCEPT ![i].pc = "encoding", ![i].canvas = id,
                                        ![i].capture = bitmap]
      /\ UNCHANGED notConc

\* The first toBlob callback of call i.
CallToBlobCallback(i, ok) ==
  LET c == calls[i]
      b == Encode(c.capture, c.args.quality, 1)
  IN  /\ c.pc = "encoding"
      /\ IF ~ok
         THEN calls' = [calls EXCEPT ![i].pc = "rejected",
                                     ![i].error = [message |-> "Failed to create blob"]]
         ELSE IF TooLarge(b)
         THEN calls' = [calls EXCEPT ![i].pc = "recompressing", ![i].blob = b,
                                     ![i].capture = canvases[c.canvas]]
         ELSE IF UseDataURL(b)
         THEN calls' = [calls EXCEPT
                          ![i].pc = "fulfilled", ![i].blob = b,
                          ![i].value =
                            ImageResult(b, [kind |-> "data",
                                            bitmap |-> canvases[c.canvas],
                                            quality |-> c.args.quality],
                                        c.args.mediaType, c.args.file)]
         ELSE calls' = [calls EXCEPT
                          ![i].pc = "fulfilled", ![i].blob = b,
                          ![i].value =
                            ImageResult(b, [kind |-> "object", of |-> b],
                                        c.args.mediaType, c.args.file)]
      /\ UNCHANGED canvases
      /\ UNCHANGED notConc

\* The second toBlob callback of call i.
CallRecompressCallback(i, ok) ==
  LET c == calls[i]
      b == Encode(c.capture, RecompressQuality, 2)
  IN  /\ c.pc = "recompressing"
      /\ IF ~ok
         THEN calls' = [calls EXCEPT ![i].pc = "rejected",
                                     ![i].error = [message |-> "Failed to recompress"]]
         ELSE calls' = [calls EXCEPT
                          ![i].pc = "fulfilled",
                          ![i].value =
                            ImageResult(b, [kind |-> "object", of |-> b],
                                        c.args.mediaType, c.args.file)]
      /\ UNCHANGED canvases
      /\ UNCHANGED notConc

ConcNext ==
  \E i \in 1..NumCalls :
    \/ \E file \in ConcFiles, mediaType \in ConcMediaTypes, position \in ConcCrops :
         CallResizeImage(i, file, mediaType, DefaultQuality, position)
    \/ CallReaderOnLoad(i)
    \/ CallReaderOnError(i)
    \/ CallImgOnError(i)
    \/ \E ctx \in BOOLEAN : CallImgOnLoad(i, ctx)
    \/ \E ok \in BOOLEAN : CallToBlobCallback(i, ok)
    \/ \E ok \in BOOLEAN : CallRecompressCallback(i, ok)

ConcSpec == Init /\ [][ConcNext]_vars

(***************************************************************************)
(* Properties of resizeImage's geometry and result.                        *)
(***************************************************************************)
Specs == MEDIA_SPECS[call.mediaType]
Fulfilled == promise = "fulfilled"
Cropped == rect # NoValue
\* sourceAspect > targetAspect, and the strict opposite.
Wider == Cropped /\ RLt(TargetAspect(call.mediaType), Rat(img.width, img.height))
Taller == Cropped /\ RLt(Rat(img.width, img.height), TargetAspect(call.mediaType))

\* C1: every successful resizeImage result, and the canvas it was encoded
\* from, has exactly the width and height of MEDIA_SPECS[mediaType], whatever
\* the source size and anchor, after one encode pass or two.
C1_DimensionInvariant ==
  Fulfilled =>
    /\ result.width = Specs.width
    /\ result.height = Specs.height
    /\ canvas = [width |-> Specs.width, height |-> Specs.height]

\* A two-pass result for a non-square format from a source of another aspect.
C1_Witness ==
  /\ Fulfilled
  /\ result.blob.pass = 2
  /\ call.mediaType = "instagram-story"
  /\ img = [width |-> 4000, height |-> 2000]
  /\ result.width = 1080 /\ result.height = 1920

\* C2: the sampling rectangle has the target's aspect ratio exactly:
\* sw' * targetHeight = sh' * targetWidth.
C2_AspectPreservingCrop ==
  Cropped => RMul(rect.sw, RInt(Specs.height)) = RMul(rect.sh, RInt(Specs.width))

\* A non-centre anchor on a source that really is narrowed, to a fractional width.
C2_Witness ==
  /\ Cropped
  /\ call.cropPosition = "right"
  /\ rect.sw # RInt(img.width)
  /\ rect.sw[2] # 1

\* C3: the sampling rectangle lies inside the source and is not empty:
\* 0 <= sx, 0 <= sy, sx + sw' <= sw, sy + sh' <= sh, sw' > 0, sh' > 0.
C3_CropInsideSource ==
  Cropped =>
    /\ RLe(RZero, rect.sx)
    /\ RLe(RZero, rect.sy)
    /\ RLe(RAdd(rect.sx, rect.sw), RInt(img.width))
    /\ RLe(RAdd(rect.sy, rect.sh), RInt(img.height))
    /\ RLt(RZero, rect.sw)
    /\ RLt(RZero, rect.sh)

\* A bottom-anchored crop of a taller source: the rectangle touches the bottom edge.
C3_Witness ==
  /\ Taller
  /\ call.cropPosition = "bottom"
  /\ RLt(RZero, rect.sy)
  /\ RAdd(rect.sy, rect.sh) = RInt(img.height)

\* C4: a wider source keeps its full height (sh' = sh, sw' = sh * targetAspect,
\* sy = 0) with sx = 0 for left, sw - sw' for right and (sw - sw')/2 for center;
\* a taller source keeps its full width (sw' = sw, sh' = sw / targetAspect,
\* sx = 0) with sy = 0 for top, sh - sh' for bottom and (sh - sh')/2 for center;
\* 4000x2000 to instagram-post at center samples (1000, 0, 2000, 2000).
C4_AnchorCorrectness ==
  LET sw == RInt(img.width)
      sh == RInt(img.height)
      ta == TargetAspect(call.mediaType)
  IN  /\ Wider =>
           /\ rect.sh = sh
           /\ rect.sw = RMul(sh, ta)
           /\ rect.sy = RZero
           /\ call.cropPosition = "left" => rect.sx = RZero
           /\ call.cropPosition = "right" => rect.sx = RSub(sw, rect.sw)
           /\ call.cropPosition = "center" => rect.sx = RDiv(RSub(sw, rect.sw), RInt(2))
      /\ Taller =>
           /\ rect.sw = sw
           /\ rect.sh = RDiv(sw, ta)
           /\ rect.sx = RZero
           /\ call.cropPosition = "top" => rect.sy = RZero
           /\ call.cropPosition = "bottom" => rect.sy = RSub(sh, rect.sh)
           /\ call.cropPosition = "center" => rect.sy = RDiv(RSub(sh, rect.sh), RInt(2))
      /\ (/\ Cropped
          /\ img = [width |-> 4000, height |-> 2000]
          /\ call.mediaType = "instagram-post"
          /\ call.cropPosition = "center") =>
           rect = [sx |-> RInt(1000), sy |-> RZero, sw |-> RInt(2000), sh |-> RInt(2000)]

\* The spec's example has been computed.
C4_Witness ==
  /\ Wider
  /\ img = [width |-> 4000, height |-> 2000]
  /\ call.mediaType = "instagram-post"
  /\ call.cropPosition = "center"
  /\ rect.sx = RInt(1000)

\* C5: one resizeImage call performs at most 2 encode operations on the canvas
\* (toBlob and toDataURL calls together).
C5_BoundedRetry == Len(encodeLog) <= 2

\* A call that settled after its second toBlob.
C5_Witness ==
  /\ pc = "done"
  /\ Len(encodeLog) = 2
  /\ encodeLog[2] = [op |-> "toBlob", quality |-> RecompressQuality]

(***************************************************************************)
(* Properties of the encoder, of settlement and of resizeVideo.            *)
(***************************************************************************)
\* C6: the crop implementation makes its second (reduced-quality) encode exactly
\* when the first blob is larger than the target format's own maxSize, so a
\* first-pass blob larger than maxSize is never the result.
C6_ReencodeOverMaxSize ==
  (blob # NoValue /\ call.impl = "crop") =>
    /\ (Len(encodeLog) >= 2 /\ encodeLog[2].op = "toBlob") <=> blob.size > Specs.maxSize
    /\ Fulfilled => ~(result.blob.pass = 1 /\ result.size > Specs.maxSize)

\* C7: under the fairness of LiveSpec every resizeImage call settles, and
\* resolve/reject is called exactly once in all.
C7_SettlesExactlyOnce ==
  /\ (promise = "pending") ~> (promise \in {"fulfilled", "rejected"})
  /\ [](resolveCalls + rejectCalls <= 1)
  /\ [](pc = "done" => resolveCalls + rejectCalls = 1)

\* A call that resolved, once, after its toDataURL.
C7_Witness ==
  /\ pc = "done"
  /\ Fulfilled
  /\ resolveCalls = 1 /\ rejectCalls = 0
  /\ encodeLog[Len(encodeLog)].op = "toDataURL"

\* C8: a resizeVideo call that has not settled can always still be settled by
\* some event: in particular, after a seek that fails without a 'seeked'
\* event the call is rejected instead of staying pending.
C8_VideoSettlesOnSeekFailure ==
  /\ vpromise = "pending" => ENABLED VideoNext
  /\ vpc = "seekFailed" => vpromise = "rejected"

\* C9: once any step has failed (read, decode, context, first or second
\* encode) the call is rejected with no result, resolve was never called, and
\* no further encode is performed.
C9_NoPartialResultNoRetry ==
  /\ [](failure # NoValue =>
          /\ promise = "rejected"
          /\ error # NoValue
          /\ result = NoValue
          /\ resolveCalls = 0)
  /\ [][failure # NoValue => encodeLog' = encodeLog]_vars

\* The second encode produced no blob: rejected after two passes.
C9_Witness ==
  /\ failure = [step |-> "recompress"]
  /\ promise = "rejected"
  /\ error = [message |-> "Failed to recompress"]
  /\ Len(encodeLog) = 2

\* C10: a successful resizeVideo result carries the input file as its blob, the
\* video's native videoWidth and videoHeight, and size = originalSize =
\* file.size; the thumbnail blob is not in it.
C10_VideoReturnsOriginal ==
  vpromise = "fulfilled" =>
    /\ vresult.blob = vcall.file
    /\ vresult.blob # thumbnail
    /\ vresult.width = video.videoWidth
    /\ vresult.height = video.videoHeight
    /\ vresult.size = vcall.file.size
    /\ vresult.originalSize = vcall.file.size

\* A resolved call whose video is not of the target size and whose thumbnail
\* has another byte size than the file.
C10_Witness ==
  /\ vpromise = "fulfilled"
  /\ video = [videoWidth |-> 4000, videoHeight |-> 2000]
  /\ vcall.mediaType = "tiktok-video"
  /\ thumbnail # NoValue
  /\ thumbnail.size # vcall.file.size

(***************************************************************************)
(* The hard ceiling and the returned representation (crop implementation). *)
(***************************************************************************)
SecondPass == Len(encodeLog) >= 2 /\ encodeLog[2].op = "toBlob"

\* C19: the crop implementation encodes a second time exactly when the first
\* blob is strictly larger than 10 * 1024 * 1024 bytes; that encode is a
\* toBlob at quality 0.6 and is the last one; a blob it yields is the result
\* (result.blob, result.size), whatever its size.
C19_HardCeilingReencode ==
  (call # NoValue /\ call.impl = "crop" /\ blob # NoValue) =>
    /\ SecondPass <=> blob.size > 10 * MiB
    /\ SecondPass =>
         /\ encodeLog[2].quality = RecompressQuality
         /\ Len(encodeLog) = 2
         /\ (pc = "done" /\ failure = NoValue) =>
              /\ Fulfilled
              /\ result.blob.pass = 2
              /\ result.blob # blob
              /\ result.size = result.blob.size
              /\ result.url = [kind |-> "object", pass |-> 2]

\* A second-pass blob that is itself above the ceiling, returned all the same.
C19_Witness ==
  /\ Fulfilled
  /\ call.impl = "crop"
  /\ SecondPass
  /\ result.blob.pass = 2
  /\ result.size > 10 * MiB
  /\ blob.size = 10 * MiB + 1

\* C20: when the first blob is at most 10 MiB, the crop implementation returns
\* that blob and its size, with a data URL made by toDataURL from the same
\* canvas at the same quality if the blob is smaller than 5 * 1024 * 1024
\* bytes, and the blob's own object URL otherwise.
C20_RepresentationChoice ==
  (call # NoValue /\ call.impl = "crop" /\ Fulfilled /\ blob.size <= 10 * MiB) =>
    /\ result.blob = blob
    /\ result.size = blob.size
    /\ IF blob.size < 5 * MiB
       THEN /\ result.url.kind = "data"
            /\ encodeLog[result.url.pass].op = "toDataURL"
            /\ encodeLog[result.url.pass].quality = encodeLog[blob.pass].quality
       ELSE /\ result.url = [kind |-> "object", pass |-> blob.pass]
            /\ Len(encodeLog) = 1

\* A blob of exactly 5 MiB goes out as an object URL.
C20_Witness ==
  /\ Fulfilled
  /\ call.impl = "crop"
  /\ blob.size = 5 * MiB
  /\ result.url.kind = "object"
  /\ call.quality = LowQuality

(***************************************************************************)
(* Properties of detectMediaType.                                          *)
(***************************************************************************)
Detected == dmt # NoValue
\* A number was passed, and it is r.
Ratio == dmt.aspectRatio.value
HasRatio == Detected /\ dmt.aspectRatio # NoValue

\* C13: with no aspect ratio, instagram, twitter, facebook and linkedin give
\* their own post format and every other platform (tiktok too) instagram-post.
C13_PlatformDefault ==
  (Detected /\ dmt.aspectRatio = NoValue) =>
    /\ dmt.platform = "instagram" => dmt.returned = "instagram-post"
    /\ dmt.platform = "twitter" => dmt.returned = "twitter-post"
    /\ dmt.platform = "facebook" => dmt.returned = "facebook-post"
    /\ dmt.platform = "linkedin" => dmt.returned = "linkedin-post"
    /\ dmt.platform \notin {"instagram", "twitter", "facebook", "linkedin"} =>
         dmt.returned = "instagram-post"

\* linkedin without a ratio.
C13_Witness ==
  /\ Detected
  /\ dmt.aspectRatio = NoValue
  /\ dmt.platform = "linkedin"
  /\ dmt.returned = "linkedin-post"

\* C14: for 0.5 <= r <= 0.6, instagram gives instagram-story, tiktok gives
\* tiktok-video and every other platform instagram-reel.
C14_TallRange ==
  (HasRatio /\ RLe(Rat(1, 2), Ratio) /\ RLe(Ratio, Rat(3, 5))) =>
    /\ dmt.platform = "instagram" => dmt.returned = "instagram-story"
    /\ dmt.platform = "tiktok" => dmt.returned = "tiktok-video"
    /\ dmt.platform \notin {"instagram", "tiktok"} => dmt.returned = "instagram-reel"

\* The upper end 0.6 itself, on a platform without a format of its own.
C14_Witness ==
  /\ HasRatio
  /\ Ratio = Rat(3, 5)
  /\ dmt.platform = "youtube"
  /\ dmt.returned = "instagram-reel"

\* C15: for 1.5 <= r <= 2.0, twitter, facebook and linkedin give their own
\* post format and every other platform instagram-post.
C15_WideRange ==
  (HasRatio /\ RLe(Rat(3, 2), Ratio) /\ RLe(Ratio, RInt(2))) =>
    /\ dmt.platform = "twitter" => dmt.returned = "twitter-post"
    /\ dmt.platform = "facebook" => dmt.returned = "facebook-post"
    /\ dmt.platform = "linkedin" => dmt.returned = "linkedin-post"
    /\ dmt.platform \notin {"twitter", "facebook", "linkedin"} =>
         dmt.returned = "instagram-post"

\* The lower end 1.5 itself.
C15_Witness ==
  /\ HasRatio
  /\ Ratio = Rat(3, 2)
  /\ dmt.platform = "facebook"
  /\ dmt.returned = "facebook-post"

\* C16: for every supplied r >= 0 the value is a catalog format id, and it is
\* instagram-post for 0.9 <= r <= 1.1 and for every r outside [0.5, 0.6],
\* [0.9, 1.1] and [1.5, 2.0], whatever the platform.
C16_TotalWithFallback ==
  (HasRatio /\ RLe(RZero, Ratio)) =>
    /\ dmt.returned \in MediaType
    /\ (RLe(Rat(9, 10), Ratio) /\ RLe(Ratio, Rat(11, 10))) =>
         dmt.returned = "instagram-post"
    /\ (/\ ~(RLe(Rat(1, 2), Ratio) /\ RLe(Ratio, Rat(3, 5)))
        /\ ~(RLe(Rat(9, 10), Ratio) /\ RLe(Ratio, Rat(11, 10)))
        /\ ~(RLe(Rat(3, 2), Ratio) /\ RLe(Ratio, RInt(2)))) =>
         dmt.returned = "instagram-post"

(***************************************************************************)
(* Properties of formatFileSize.  The returned string is taken apart at    *)
(* its space and its decimal point and compared with the byte count.       *)
(***************************************************************************)
Formatted == ffs # NoValue /\ "returned" \in DOMAIN ffs

\* The position of the first occurrence of the character c in s, 0 if none.
IndexOf(s, c) ==
  IF \E p \in 1..Len(s) : SubSeq(s, p, p) = c
  THEN CHOOSE p \in 1..Len(s) :
         /\ SubSeq(s, p, p) = c
         /\ \A q \in 1..(p - 1) : SubSeq(s, q, q) # c
  ELSE 0

\* The text before and after the space.
NumberPart(s) == SubSeq(s, 1, IndexOf(s, " ") - 1)
UnitPart(s) == SubSeq(s, IndexOf(s, " ") + 1, Len(s))

IsDigit(c) == \E d \in 0..9 : ToString(d) = c
DigitVal(c) == CHOOSE d \in 0..9 : ToString(d) = c
AllDigits(s) == Len(s) >= 1 /\ \A p \in 1..Len(s) : IsDigit(SubSeq(s, p, p))

RECURSIVE ParseNat(_)
ParseNat(s) ==
  IF s = "" THEN 0
  ELSE 10 * ParseNat(SubSeq(s, 1, Len(s) - 1)) + DigitVal(SubSeq(s, Len(s), Len(s)))

\* A decimal numeral: digits, or digits "." and one or two more digits.
IsNumeral(s) ==
  LET dot == IndexOf(s, ".")
  IN  IF dot = 0 THEN AllDigits(s)
      ELSE /\ AllDigits(SubSeq(s, 1, dot - 1))
           /\ AllDigits(SubSeq(s, dot + 1, Len(s)))
           /\ Len(s) - dot <= 2

\* The numeral's value in hundredths.
ParseHundredths(s) ==
  LET dot == IndexOf(s, ".")
      frac == SubSeq(s, dot + 1, Len(s))
  IN  IF dot = 0 THEN 100 * ParseNat(s)
      ELSE 100 * ParseNat(SubSeq(s, 1, dot - 1))
             + (IF Len(frac) = 1 THEN 10 * ParseNat(frac) ELSE ParseNat(frac))

\* The byte count n, for n that fit.
Bytes(n) == BigNorm(<<n>>, 0)

\* C17: for every non-negative integer byte count the returned string is a
\* number, a space and one of the units Bytes, KB, MB, GB; for 0 it is
\* "0 Bytes".
C17_NeverFails ==
  Formatted =>
    /\ IndexOf(ffs.returned, " ") > 1
    /\ IsNumeral(NumberPart(ffs.returned))
    /\ UnitPart(ffs.returned) \in {"Bytes", "KB", "MB", "GB"}
    /\ BigTrim(ffs.bytes) = <<>> => ffs.returned = "0 Bytes"

\* C18: for 1 <= b < 1024^4 the unit is sizes[i] for the i in 0..3 with
\* 1024^i <= b < 1024^(i+1), and the number is the decimal numeral nearest to
\* b / 1024^i with two decimal places; 1536 gives "1.5 KB" and 10485760 gives
\* "10 MB".
C18_UnitSelection ==
  (Formatted /\ BigLe(Pow(0), ffs.bytes) /\ BigLt(ffs.bytes, Pow(4))) =>
    /\ \A i \in 0..3 :
         (BigLe(Pow(i), ffs.bytes) /\ BigLt(ffs.bytes, Pow(i + 1))) =>
           /\ UnitPart(ffs.returned) = Sizes[i + 1]
           /\ IsNumeral(NumberPart(ffs.returned))
           /\ LET h == Bytes(2 * ParseHundredths(NumberPart(ffs.returned)))
                  b == BigMulSmall(ffs.bytes, 200)
              IN  \* |h / 100 - b / 1024^i| <= 1 / 200
                  /\ BigLe(ShiftLeft(h, i), BigAdd(b, Pow(i)))
                  /\ BigLe(b, BigAdd(ShiftLeft(h, i), Pow(i)))
    /\ \E i \in 0..3 : BigLe(Pow(i), ffs.bytes) /\ BigLt(ffs.bytes, Pow(i + 1))
    /\ BigTrim(ffs.bytes) = Bytes(1536) => ffs.returned = "1.5 KB"
    /\ BigTrim(ffs.bytes) = Bytes(10485760) => ffs.returned = "10 MB"

\* 1030 bytes: 1.005859375 KB, which rounds up to 1.01.
C18_Witness ==
  /\ Formatted
  /\ BigTrim(ffs.bytes) = Bytes(1030)
  /\ ffs.returned = "1.01 KB"

(***************************************************************************)
(* Properties of the MediaResizer component.                               *)
(***************************************************************************)
\* The object URLs the component's state references now.
Referenced ==
  {u \in held : u = preview \/ (uiResult # NoValue /\ u = uiResult.url)}

\* C12: every object URL that preview or result has held and that the state
\* no longer references has been revoked.
C12_SupersededRevoked ==
  \A u \in held : u \notin Referenced => objectURLs[u.id] >= 1

(***************************************************************************)
(* Properties of concurrent resizeImage calls.                             *)
(***************************************************************************)
\* What resizeImage resolves with when the call runs alone: one canvas, drawn
\* once, encoded at the given quality and, above 10 MiB, again at 0.6.
SoloResult(args) ==
  LET bitmap == Drawn(args)
      first == Encode(bitmap, args.quality, 1)
      second == Encode(bitmap, RecompressQuality, 2)
  IN  IF first.size > 10 * MiB
      THEN ImageResult(second, [kind |-> "object", of |-> second], args.mediaType,
                       args.file)
      ELSE IF first.size < 5 * MiB
      THEN ImageResult(first, [kind |-> "data", bitmap |-> bitmap,
                               quality |-> args.quality], args.mediaType, args.file)
      ELSE ImageResult(first, [kind |-> "object", of |-> first], args.mediaType,
                       args.file)

\* C11: under every interleaving, the result of each fulfilled call (its
\* dimensions, crop rectangle, size, originalSize, blob and URL contents) is
\* the one the call produces alone, and calls with identical arguments have
\* equal results.
C11_IndependentCalls ==
  /\ \A i \in 1..NumCalls :
       calls[i].pc = "fulfilled" =>
         /\ calls[i].value = SoloResult(calls[i].args)
         /\ calls[i].value.blob.bitmap.rect =
              CropRect(calls[i].args.file.width, calls[i].args.file.height,
                       calls[i].args.mediaType, calls[i].args.cropPosition)
  /\ \A i, j \in 1..NumCalls :
       (/\ calls[i].pc = "fulfilled"
        /\ calls[j].pc = "fulfilled"
        /\ calls[i].args = calls[j].args) => calls[i].value = calls[j].value

\* Call 1 drew its canvas after call 2 drew its own, went through the second
\* pass and was fulfilled while call 2, on another file, is still encoding.
C11_Witness ==
  /\ calls[1].pc = "fulfilled"
  /\ calls[1].value.blob.pass = 2
  /\ calls[2].pc = "recompressing"
  /\ calls[2].canvas = 1
  /\ calls[1].canvas = 2
  /\ calls[1].args # calls[2].args

(***************************************************************************)
(* Further properties of the cropper and of the catalog.                   *)
(***************************************************************************)
\* C22: with a source wider than the target, 'top' and 'bottom' give the
\* centred rectangle; with a source taller than or as wide as the target,
\* 'left' and 'right' give the centred rectangle; so sx or sy is always 0.
C22_CrossAxisFallsBackToCenter ==
  (Cropped /\ call.impl = "crop") =>
    LET ta == TargetAspect(call.mediaType)
        w == RInt(img.width)
        h == RInt(img.height)
    IN  /\ (Wider /\ call.cropPosition \in {"top", "bottom", "center"}) =>
             /\ rect.sw = RMul(h, ta)
             /\ rect.sh = h
             /\ rect.sx = RDiv(RSub(w, rect.sw), RInt(2))
             /\ rect.sy = RZero
        /\ (~Wider /\ call.cropPosition \in {"left", "right", "center"}) =>
             /\ rect.sw = w
             /\ rect.sh = RDiv(w, ta)
             /\ rect.sx = RZero
             /\ rect.sy = RDiv(RSub(h, rect.sh), RInt(2))
        /\ rect.sx = RZero \/ rect.sy = RZero

\* A 4000x2000 source cut to a square with anchor 'bottom': centred at 1000.
C22_Witness ==
  /\ Cropped
  /\ call.impl = "crop"
  /\ Wider
  /\ call.cropPosition = "bottom"
  /\ img = [width |-> 4000, height |-> 2000]
  /\ call.mediaType = "instagram-post"
  /\ rect.sx = RInt(1000)

\* C23: when the source has exactly the target's aspect, every anchor samples
\* the whole source: sx = 0, sy = 0, sw' = sw, sh' = sh.
C23_EqualAspectPureScale ==
  (/\ Cropped
   /\ call.impl = "crop"
   /\ img.width * Specs.height = img.height * Specs.width) =>
    rect = [sx |-> RZero, sy |-> RZero, sw |-> RInt(img.width),
            sh |-> RInt(img.height)]

\* A 1200x675 source for twitter-post with anchor 'bottom'.
C23_Witness ==
  /\ Cropped
  /\ call.impl = "crop"
  /\ img = [width |-> 1200, height |-> 675]
  /\ call.mediaType = "twitter-post"
  /\ call.cropPosition = "bottom"
  /\ rect.sh = RInt(675)

\* The ratio a label a:b names, as the pair of a and b in hundredths.
LabelRatio(label) ==
  LET colon == IndexOf(label, ":")
  IN  <<ParseHundredths(SubSeq(label, 1, colon - 1)),
        ParseHundredths(SubSeq(label, colon + 1, Len(label)))>>

\* The text between the parentheses of a display label.
InParens(label) ==
  SubSeq(label, IndexOf(label, "(") + 1, IndexOf(label, ")") - 1)

\* C24: the catalog entry of the requested format has positive width and
\* height, width / height is the ratio its aspectRatio label a:b names
\* (width * b = height * a), and getMediaTypeLabel shows that same label.
C24_CatalogConsistency ==
  call # NoValue =>
    LET ratio == LabelRatio(Specs.aspectRatio)
    IN  /\ Specs.width \in Nat \ {0}
        /\ Specs.height \in Nat \ {0}
        /\ Specs.width * ratio[2] = Specs.height * ratio[1]
        /\ InParens(GetMediaTypeLabel(call.mediaType)) = Specs.aspectRatio

(***************************************************************************)
(* Further properties of the MediaResizer component.                       *)
(***************************************************************************)
\* The handleResize calls whose closure is still alive: pending, or displayed.
Live(k) == k \in DOMAIN requests /\ "file" \in DOMAIN requests[k]
InFlight == {k \in DOMAIN requests : requests[k].state = "pending"}

\* C21: every image resize the component starts passes quality 0.75 when the
\* file is larger than 10 MiB and 0.92 otherwise.
C21_InitialQuality ==
  \A k \in DOMAIN requests :
    (Live(k) /\ requests[k].file.type = "image") =>
      requests[k].quality =
        IF requests[k].file.size > 10 * MiB THEN LowQuality ELSE DefaultQuality

\* C25: a result arriving for a request that is not the most recently issued
\* one is not stored; and once no request is pending, no request issued after
\* the displayed one has been fulfilled.
C25_StaleDiscarded ==
  [][/\ \A k \in DOMAIN requests :
          (/\ requests[k].state = "pending"
           /\ requests'[k].state = "fulfilled"
           /\ k < Len(requests)) => (uiResult' = uiResult /\ displayed' = displayed)
     /\ (displayed' # 0 /\ \A k \in DOMAIN requests' : requests'[k].state # "pending") =>
          \A j \in DOMAIN requests' : j > displayed' => requests'[j].state # "fulfilled"
    ]_vars

\* C26: in DashboardView.tsx, the resize call that a click on a crop position
\* or a target format triggers while a result is displayed is issued with the
\* crop position and format the click selects.
C26_ReresizeUsesNewSelection ==
  [][(/\ component = "dashboard"
      /\ uiResult # NoValue
      /\ Len(requests') = Len(requests) + 1
      /\ requests'[Len(requests')].state = "pending") =>
        /\ requests'[Len(requests')].cropPosition = uiCropPosition'
        /\ requests'[Len(requests')].mediaType = selectedMediaType'
    ]_vars

\* C27: a displayed result was computed from the file held in selectedFile.
C27_ResultOfSelectedFile ==
  uiResult # NoValue =>
    /\ selectedFile # NoValue
    /\ requests[displayed].file = selectedFile

\* C28: at most one resize call is in flight, and processing is true exactly
\* while one is.
C28_ProcessingTracksInFlight ==
  /\ Cardinality(InFlight) <= 1
  /\ processing <=> InFlight # {}

\* C29: an object URL in the displayed result or in preview has not been
\* revoked, and no object URL is revoked twice.
C29_NoUseAfterRevoke ==
  /\ (uiResult # NoValue /\ IsBlobURL(uiResult.url)) => objectURLs[uiResult.url.id] = 0
  /\ IsBlobURL(preview) => objectURLs[preview.id] = 0
  /\ \A u \in DOMAIN objectURLs : objectURLs[u] <= 1

\* A number, a space and one of the four units.
WellFormedSize(str) ==
  /\ IndexOf(str, " ") > 1
  /\ IsNumeral(NumberPart(str))
  /\ UnitPart(str) \in {"Bytes", "KB", "MB", "GB"}

\* C30: for a displayed result, size is the byte size of its blob,
\* originalSize is the byte size of the source file, and the three size
\* strings rendered (Original Size, New Size, Saved) are well-formed.
C30_SizeReportWellFormed ==
  uiResult # NoValue =>
    /\ uiResult.size = uiResult.blob.size
    /\ uiResult.originalSize = requests[displayed].file.size
    /\ WellFormedSize(SizeReport(uiResult).originalSize)
    /\ WellFormedSize(SizeReport(uiResult).newSize)
    /\ WellFormedSize(SizeReport(uiResult).saved)

====
